---------------------------- MODULE Spec2Model ----------------------------
(***************************************************************************)
(* FlowQuest delta-rendering core: the HTTP handlers of                    *)
(* app/api/videoquests.py over the in-memory quest_storage, the planner    *)
(* that builds the plan and shot graph, the renderer engine                *)
(* (render_shot / render_delta_shots) and its cache-key derivation.        *)
(*                                                                         *)
(* Three specifications share the module:                                  *)
(*   Spec        the API handlers (generate, answer-step, preview task)    *)
(*   SpecRender  render batches of RendererEngine as asyncio tasks         *)
(*   SpecKey     the pure cache-key function on bounded binding mappings   *)
(***************************************************************************)
EXTENDS Integers, Sequences, FiniteSets, TLC

VARIABLES
    safe_mode,      \* settings.SAFE_MODE, read by PlannerEngine.__init__
    quest_storage,  \* videoquests.quest_storage: quest id -> quest dict
    preview_tasks,  \* quest ids whose _generate_preview background task is pending
    preview_ref,    \* quest id -> preview URL most recently returned for it
    last,           \* the most recently handled request and its response
    batches,        \* render_delta_shots calls: batch id -> call record
    tasks,          \* render_shot coroutines: batch id -> per-shot task record
    cache,          \* the render cache behind _check_cache / _store_cache
    backend_runs,   \* cache key -> number of backend renders started for it
    k_shot,         \* SpecKey: shot id, seed and style of the derivation
    k_in,           \* SpecKey: the two binding mappings being compared
    k_out,          \* SpecKey: the two derived cache keys (or NoKey)
    st_in,          \* SpecStitch: the stitch_preview calls being compared
    st_out,         \* SpecStitch: what each of the calls returned
    g_in,           \* SpecGraph: the shots, edges and checkpoint ids handed to ShotGraph
    g_out,          \* SpecGraph: the graph that was constructed (or the rejection)
    rl_limit,       \* SpecRate: the limit of the is_allowed calls
    rl_bucket,      \* SpecRate: the Redis value under the client's bucket key
    rl_calls        \* SpecRate: the is_allowed calls: position, tokens read, verdict

apiVars    == <<safe_mode, quest_storage, preview_tasks, preview_ref, last>>
renderVars == <<batches, tasks, cache, backend_runs>>
keyVars    == <<k_shot, k_in, k_out>>
stitchVars == <<st_in, st_out>>
graphVars  == <<g_in, g_out>>
rateVars   == <<rl_limit, rl_bucket, rl_calls>>
vars       == <<apiVars, renderVars, keyVars, stitchVars, graphVars, rateVars>>

-----------------------------------------------------------------------------
(* Bounds of the model *)

\* quests that generate may create
MaxQuests == 1
\* concurrent / successive render_delta_shots calls
MaxBatches == 2
\* key/value pairs in a binding mapping of SpecKey
MaxBindings == 2

\* SpecRate: the largest limit tried, and the number of is_allowed calls
MaxLimit == 3

MaxCallers == 4

-----------------------------------------------------------------------------
(* JSON values: Python ints and strs are kept apart, None is none *)

Num(n) == [kind |-> "num", n |-> n]
Str(s) == [kind |-> "str", s |-> s]
None   == [kind |-> "none"]

\* dict.get(key, default) on a mapping modelled as a function
Get(d, k, default) == IF k \in DOMAIN d THEN d[k] ELSE default

\* the set of all orderings of a finite set, as sequences
RECURSIVE Perms(_)
Perms(S) ==
    IF S = {} THEN { <<>> }
    ELSE UNION { { <<x>> \o p : p \in Perms(S \ {x}) } : x \in S }

Range(s) == { s[i] : i \in DOMAIN s }


-----------------------------------------------------------------------------
(* PlannerEngine (app/engines/planner.py) *)

\* how an f-string renders a value
Format(v) ==
    IF v.kind = "num" THEN ToString(v.n)
    ELSE IF v.kind = "str" THEN v.s
    ELSE "None"

\* request.inputs of the generate requests the model issues
InputChoices ==
    { [k \in {} |-> None],
      [k \in {"budget", "company"} |->
          IF k = "budget" THEN Num(16000) ELSE Str("Acme Corp")] }

TemplateKeys == {"sales_quote_v1", "other"}

\* the literal shot graph of the sales_quote_v1 template
SafeModeShotGraph(inputs) ==
    [ version |-> "1.0",
      shots |-> <<
          [ id |-> "s1", step_ids |-> <<"budget">>, seed |-> 12345,
            bindings |-> << <<"company", Get(inputs, "company", Str("Client"))>> >>,
            duration |-> 8,
            overlays |-> << [type |-> "title", text |-> "Sales Quote"] >> ],
          [ id |-> "s2", step_ids |-> <<"budget">>, seed |-> 12346,
            bindings |-> << <<"budget", Get(inputs, "budget", Num(15000))>> >>,
            duration |-> 12,
            overlays |-> << [type |-> "figure", chart_type |-> "budget_breakdown"] >> ] >>,
      edges |-> << <<"s1", "s2">> >> ]

\* _generate_safe_mode_plan: the plan of the one known template, else ValueError
SafeModePlan(template_key, inputs) ==
    IF template_key = "sales_quote_v1"
    THEN [ ok |-> TRUE,
           steps |-> <<
               [ id |-> "budget", label |-> "Budget", type |-> "currency",
                 required |-> TRUE, value |-> Get(inputs, "budget", Num(15000)) ],
               [ id |-> "scope", label |-> "Project Scope", type |-> "text",
                 required |-> TRUE,
                 value |-> Str("Implementation for "
                               \o Format(Get(inputs, "company", Str("client")))) ],
               [ id |-> "timeline", label |-> "Timeline", type |-> "date",
                 required |-> TRUE, value |-> Str("2024-Q2") ] >>,
           shot_graph |-> SafeModeShotGraph(inputs) ]
    ELSE [ ok |-> FALSE, error |-> "ValueError" ]

\* _infer_step_type on the binding keys of the model: "budget" holds
\* "budget", "timeline" holds "time"; the value decides the rest
InferStepType(key, value) ==
    IF key \in {"budget"} THEN "currency"
    ELSE IF key \in {"timeline"} THEN "date"
    ELSE IF value.kind = "num" THEN "number"
    ELSE "text"

\* key.replace("_", " ").title() on the binding keys of the model
TitleOf(key) ==
    CASE key = "budget"   -> "Budget"
      [] key = "scope"    -> "Scope"
      [] key = "timeline" -> "Timeline"
      [] key = "company"  -> "Company"
      [] OTHER            -> key

\* the binding keys of all shots of a graph (a Python set)
BindingKeys(shot_graph) ==
    UNION { { b[1] : b \in Range(sh.bindings) } : sh \in Range(shot_graph.shots) }

\* _extract_steps_from_shot_graph: one step per binding key, in the set's
\* iteration order (order), valued from the inputs
ExtractSteps(inputs, order) ==
    [ i \in DOMAIN order |->
        [ id |-> order[i], label |-> TitleOf(order[i]),
          type |-> InferStepType(order[i], Get(inputs, order[i], None)),
          required |-> TRUE, value |-> Get(inputs, order[i], None) ] ]

\* a shot as the LLM's JSON gives it: bound to the checkpoints it depends on
LLMShot(id, deps, inputs) ==
    [ id |-> id, step_ids |-> deps,
      bindings |-> [ i \in DOMAIN deps |-> <<deps[i], Get(inputs, deps[i], None)>> ],
      duration |-> 10, overlays |-> <<>> ]

\* the replies LLMPlanner.generate_shot_graph can hand back: a failure
\* (no provider, API error, malformed JSON) or one of a family of graphs
LLMFail == [ failed |-> TRUE ]

LLMReplies(inputs) ==
    { LLMFail }
    \cup { [ failed |-> FALSE,
             shots |-> << LLMShot("s1", d[1], inputs), LLMShot("s2", d[2], inputs) >>,
             edges |-> d[3] ] :
           d \in { << <<>>, <<"budget">>, << <<"s1", "s2">> >> >>,
                   << <<"scope">>, <<>>, <<>> >> } }

\* generate_plan: safe mode, or the LLM plan falling back to safe mode on
\* any exception
GeneratePlan(safe, template_key, inputs, reply, order) ==
    IF safe \/ reply.failed
    THEN SafeModePlan(template_key, inputs)
    ELSE [ ok |-> TRUE,
           steps |-> ExtractSteps(inputs, order),
           shot_graph |-> [ shots |-> reply.shots, edges |-> reply.edges ] ]


-----------------------------------------------------------------------------
(* Cache-key derivation (app/engines/renderer.py) *)

\* the binding keys of the model in the order Python's sort gives strings
LexOrder == <<"budget", "company", "scope", "seats", "timeline">>

\* json.dumps of a scalar: ints bare, strs quoted, None as null
JsonValue(v) ==
    IF v.kind = "num" THEN ToString(v.n)
    ELSE IF v.kind = "str" THEN "\"" \o v.s \o "\""
    ELSE "null"

\* a binding mapping is a Python dict: a sequence of <<key, value>> pairs in
\* insertion order, no key twice
KeysOf(bindings) == { bindings[i][1] : i \in DOMAIN bindings }

Lookup(bindings, k) ==
    bindings[CHOOSE i \in DOMAIN bindings : bindings[i][1] = k][2]

RECURSIVE JoinItems(_)
JoinItems(items) ==
    IF items = <<>> THEN ""
    ELSE IF Len(items) = 1 THEN items[1]
    ELSE items[1] \o "," \o JoinItems(Tail(items))

\* the order json.dumps writes the keys in under sort_keys=True
SortedKeys(bindings) == SelectSeq(LexOrder, LAMBDA k : k \in KeysOf(bindings))

\* json.dumps without sort_keys: the keys in insertion order
JsonDumpsUnsorted(bindings) ==
    "{" \o JoinItems([ i \in DOMAIN bindings |->
                         "\"" \o bindings[i][1] \o "\":" \o JsonValue(bindings[i][2]) ])
    \o "}"

\* json.dumps(bindings, sort_keys=True, separators=(',', ':'))
JsonDumps(bindings) ==
    LET ks == SortedKeys(bindings)
    IN  "{" \o JoinItems([ i \in DOMAIN ks |->
                             "\"" \o ks[i] \o "\":" \o JsonValue(Lookup(bindings, ks[i])) ])
        \o "}"

\* hashlib.sha256(s.encode()).hexdigest()[:8], tabulated over the
\* serializations the model can produce
Sha256Hex8(s) ==
    CASE s = "{}" -> "44136fa3"
      [] s = "{\"budget\":14000}" -> "0293d5e0"
      [] s = "{\"budget\":\"14000\"}" -> "63fa60ff"
      [] s = "{\"budget\":\"Acme Corp\"}" -> "fbe5d6ef"
      [] s = "{\"company\":14000}" -> "06590ef5"
      [] s = "{\"company\":\"14000\"}" -> "72906cd3"
      [] s = "{\"company\":\"Acme Corp\"}" -> "98174ce3"
      [] s = "{\"seats\":14000}" -> "491c7727"
      [] s = "{\"seats\":\"14000\"}" -> "7ffdecd1"
      [] s = "{\"seats\":\"Acme Corp\"}" -> "c5a1fcdb"
      [] s = "{\"budget\":14000,\"company\":14000}" -> "28418b15"
      [] s = "{\"budget\":14000,\"company\":\"14000\"}" -> "265075fd"
      [] s = "{\"budget\":14000,\"company\":\"Acme Corp\"}" -> "98b9e5d7"
      [] s = "{\"budget\":\"14000\",\"company\":14000}" -> "980cc81c"
      [] s = "{\"budget\":\"14000\",\"company\":\"14000\"}" -> "4c1ed51f"
      [] s = "{\"budget\":\"14000\",\"company\":\"Acme Corp\"}" -> "4504358a"
      [] s = "{\"budget\":\"Acme Corp\",\"company\":14000}" -> "4a90ce48"
      [] s = "{\"budget\":\"Acme Corp\",\"company\":\"14000\"}" -> "b0b992ea"
      [] s = "{\"budget\":\"Acme Corp\",\"company\":\"Acme Corp\"}" -> "88aa91fc"
      [] s = "{\"budget\":14000,\"seats\":14000}" -> "0d055023"
      [] s = "{\"budget\":14000,\"seats\":\"14000\"}" -> "4c449275"
      [] s = "{\"budget\":14000,\"seats\":\"Acme Corp\"}" -> "cd6922e8"
      [] s = "{\"budget\":\"14000\",\"seats\":14000}" -> "7b69668a"
      [] s = "{\"budget\":\"14000\",\"seats\":\"14000\"}" -> "f9a35d32"
      [] s = "{\"budget\":\"14000\",\"seats\":\"Acme Corp\"}" -> "c143a6fa"
      [] s = "{\"budget\":\"Acme Corp\",\"seats\":14000}" -> "a3c6cc97"
      [] s = "{\"budget\":\"Acme Corp\",\"seats\":\"14000\"}" -> "6b11b928"
      [] s = "{\"budget\":\"Acme Corp\",\"seats\":\"Acme Corp\"}" -> "84b1cd59"
      [] s = "{\"company\":14000,\"budget\":14000}" -> "4944a0cd"
      [] s = "{\"company\":14000,\"budget\":\"14000\"}" -> "770796fe"
      [] s = "{\"company\":14000,\"budget\":\"Acme Corp\"}" -> "e2b51d88"
      [] s = "{\"company\":\"14000\",\"budget\":14000}" -> "4c20d5f0"
      [] s = "{\"company\":\"14000\",\"budget\":\"14000\"}" -> "2d2901b4"
      [] s = "{\"company\":\"14000\",\"budget\":\"Acme Corp\"}" -> "52a61a46"
      [] s = "{\"company\":\"Acme Corp\",\"budget\":14000}" -> "5e4c7ae4"
      [] s = "{\"company\":\"Acme Corp\",\"budget\":\"14000\"}" -> "cd727341"
      [] s = "{\"company\":\"Acme Corp\",\"budget\":\"Acme Corp\"}" -> "e77727cb"
      [] s = "{\"company\":14000,\"seats\":14000}" -> "54310fb7"
      [] s = "{\"company\":14000,\"seats\":\"14000\"}" -> "43c39ac4"
      [] s = "{\"company\":14000,\"seats\":\"Acme Corp\"}" -> "55fd3856"
      [] s = "{\"company\":\"14000\",\"seats\":14000}" -> "35035538"
      [] s = "{\"company\":\"14000\",\"seats\":\"14000\"}" -> "775928b5"
      [] s = "{\"company\":\"14000\",\"seats\":\"Acme Corp\"}" -> "8cc211ee"
      [] s = "{\"company\":\"Acme Corp\",\"seats\":14000}" -> "07d8a37c"
      [] s = "{\"company\":\"Acme Corp\",\"seats\":\"14000\"}" -> "04fc4f7e"
      [] s = "{\"company\":\"Acme Corp\",\"seats\":\"Acme Corp\"}" -> "1da3a9d8"
      [] s = "{\"seats\":14000,\"budget\":14000}" -> "46838d56"
      [] s = "{\"seats\":14000,\"budget\":\"14000\"}" -> "fa2621c3"
      [] s = "{\"seats\":14000,\"budget\":\"Acme Corp\"}" -> "a94c9637"
      [] s = "{\"seats\":\"14000\",\"budget\":14000}" -> "288dee45"
      [] s = "{\"seats\":\"14000\",\"budget\":\"14000\"}" -> "271297b0"
      [] s = "{\"seats\":\"14000\",\"budget\":\"Acme Corp\"}" -> "9a2d62db"
      [] s = "{\"seats\":\"Acme Corp\",\"budget\":14000}" -> "20a99571"
      [] s = "{\"seats\":\"Acme Corp\",\"budget\":\"14000\"}" -> "bdce7c7f"
      [] s = "{\"seats\":\"Acme Corp\",\"budget\":\"Acme Corp\"}" -> "ce440dd2"
      [] s = "{\"seats\":14000,\"company\":14000}" -> "94cd5700"
      [] s = "{\"seats\":14000,\"company\":\"14000\"}" -> "f5b11ea5"
      [] s = "{\"seats\":14000,\"company\":\"Acme Corp\"}" -> "84757ca5"
      [] s = "{\"seats\":\"14000\",\"company\":14000}" -> "2c5cced2"
      [] s = "{\"seats\":\"14000\",\"company\":\"14000\"}" -> "0c5a2d6b"
      [] s = "{\"seats\":\"14000\",\"company\":\"Acme Corp\"}" -> "527cfbe1"
      [] s = "{\"seats\":\"Acme Corp\",\"company\":14000}" -> "e68e03ed"
      [] s = "{\"seats\":\"Acme Corp\",\"company\":\"14000\"}" -> "ad97c0fa"
      [] s = "{\"seats\":\"Acme Corp\",\"company\":\"Acme Corp\"}" -> "0df8941a"
      [] s = "{\"budget\":14000,\"company\":14000,\"seats\":14000}" -> "dd0867f6"
      [] s = "{\"budget\":14000,\"company\":14000,\"seats\":\"14000\"}" -> "c448c5be"
      [] s = "{\"budget\":14000,\"company\":14000,\"seats\":\"Acme Corp\"}" -> "e1fd8d26"
      [] s = "{\"budget\":14000,\"company\":\"14000\",\"seats\":14000}" -> "4b69cbaa"
      [] s = "{\"budget\":14000,\"company\":\"14000\",\"seats\":\"14000\"}" -> "6a00df97"
      [] s = "{\"budget\":14000,\"company\":\"14000\",\"seats\":\"Acme Corp\"}" -> "c67030e9"
      [] s = "{\"budget\":14000,\"company\":\"Acme Corp\",\"seats\":14000}" -> "1db56d42"
      [] s = "{\"budget\":14000,\"company\":\"Acme Corp\",\"seats\":\"14000\"}" -> "c84fb30d"
      [] s = "{\"budget\":14000,\"company\":\"Acme Corp\",\"seats\":\"Acme Corp\"}" -> "3e87b14f"
      [] s = "{\"budget\":\"14000\",\"company\":14000,\"seats\":14000}" -> "1dd34081"
      [] s = "{\"budget\":\"14000\",\"company\":14000,\"seats\":\"14000\"}" -> "ce464848"
      [] s = "{\"budget\":\"14000\",\"company\":14000,\"seats\":\"Acme Corp\"}" -> "82d3e10e"
      [] s = "{\"budget\":\"14000\",\"company\":\"14000\",\"seats\":14000}" -> "1350e658"
      [] s = "{\"budget\":\"14000\",\"company\":\"14000\",\"seats\":\"14000\"}" -> "05e08d2d"
      [] s = "{\"budget\":\"14000\",\"company\":\"14000\",\"seats\":\"Acme Corp\"}" -> "95fcadcf"
      [] s = "{\"budget\":\"14000\",\"company\":\"Acme Corp\",\"seats\":14000}" -> "dfcc24a0"
      [] s = "{\"budget\":\"14000\",\"company\":\"Acme Corp\",\"seats\":\"14000\"}" -> "e6611d85"
      [] s = "{\"budget\":\"14000\",\"company\":\"Acme Corp\",\"seats\":\"Acme Corp\"}" -> "246eae48"
      [] s = "{\"budget\":\"Acme Corp\",\"company\":14000,\"seats\":14000}" -> "8bc25d00"
      [] s = "{\"budget\":\"Acme Corp\",\"company\":14000,\"seats\":\"14000\"}" -> "f89af133"
      [] s = "{\"budget\":\"Acme Corp\",\"company\":14000,\"seats\":\"Acme Corp\"}" -> "6ed495be"
      [] s = "{\"budget\":\"Acme Corp\",\"company\":\"14000\",\"seats\":14000}" -> "957290df"
      [] s = "{\"budget\":\"Acme Corp\",\"company\":\"14000\",\"seats\":\"14000\"}" -> "d28f6d0b"
      [] s = "{\"budget\":\"Acme Corp\",\"company\":\"14000\",\"seats\":\"Acme Corp\"}" -> "fcbdaf42"
      [] s = "{\"budget\":\"Acme Corp\",\"company\":\"Acme Corp\",\"seats\":14000}" -> "a9227bf6"
      [] s = "{\"budget\":\"Acme Corp\",\"company\":\"Acme Corp\",\"seats\":\"14000\"}" -> "0b686a59"
      [] s = "{\"budget\":\"Acme Corp\",\"company\":\"Acme Corp\",\"seats\":\"Acme Corp\"}" -> "e3fd3a5d"
      [] s = "{\"budget\":14000,\"seats\":14000,\"company\":14000}" -> "dd314700"
      [] s = "{\"budget\":14000,\"seats\":14000,\"company\":\"14000\"}" -> "82d1d2dd"
      [] s = "{\"budget\":14000,\"seats\":14000,\"company\":\"Acme Corp\"}" -> "b6102029"
      [] s = "{\"budget\":14000,\"seats\":\"14000\",\"company\":14000}" -> "2548f3ad"
      [] s = "{\"budget\":14000,\"seats\":\"14000\",\"company\":\"14000\"}" -> "cc03e505"
      [] s = "{\"budget\":14000,\"seats\":\"14000\",\"company\":\"Acme Corp\"}" -> "4fc55b36"
      [] s = "{\"budget\":14000,\"seats\":\"Acme Corp\",\"company\":14000}" -> "75119624"
      [] s = "{\"budget\":14000,\"seats\":\"Acme Corp\",\"company\":\"14000\"}" -> "41da873c"
      [] s = "{\"budget\":14000,\"seats\":\"Acme Corp\",\"company\":\"Acme Corp\"}" -> "fcdc2981"
      [] s = "{\"budget\":\"14000\",\"seats\":14000,\"company\":14000}" -> "ba93c017"
      [] s = "{\"budget\":\"14000\",\"seats\":14000,\"company\":\"14000\"}" -> "f1b8e72f"
      [] s = "{\"budget\":\"14000\",\"seats\":14000,\"company\":\"Acme Corp\"}" -> "3a08b76f"
      [] s = "{\"budget\":\"14000\",\"seats\":\"14000\",\"company\":14000}" -> "a63c68e9"
      [] s = "{\"budget\":\"14000\",\"seats\":\"14000\",\"company\":\"14000\"}" -> "6db55b2d"
      [] s = "{\"budget\":\"14000\",\"seats\":\"14000\",\"company\":\"Acme Corp\"}" -> "9b10e7e4"
      [] s = "{\"budget\":\"14000\",\"seats\":\"Acme Corp\",\"company\":14000}" -> "96d37a38"
      [] s = "{\"budget\":\"14000\",\"seats\":\"Acme Corp\",\"company\":\"14000\"}" -> "187012a2"
      [] s = "{\"budget\":\"14000\",\"seats\":\"Acme Corp\",\"company\":\"Acme Corp\"}" -> "b4f2e97a"
      [] s = "{\"budget\":\"Acme Corp\",\"seats\":14000,\"company\":14000}" -> "1779ad0a"
      [] s = "{\"budget\":\"Acme Corp\",\"seats\":14000,\"company\":\"14000\"}" -> "63877d59"
      [] s = "{\"budget\":\"Acme Corp\",\"seats\":14000,\"company\":\"Acme Corp\"}" -> "6ee06683"
      [] s = "{\"budget\":\"Acme Corp\",\"seats\":\"14000\",\"company\":14000}" -> "0324e3d5"
      [] s = "{\"budget\":\"Acme Corp\",\"seats\":\"14000\",\"company\":\"14000\"}" -> "f16aa5d2"
      [] s = "{\"budget\":\"Acme Corp\",\"seats\":\"14000\",\"company\":\"Acme Corp\"}" -> "7f6fff03"
      [] s = "{\"budget\":\"Acme Corp\",\"seats\":\"Acme Corp\",\"company\":14000}" -> "3ec87170"
      [] s = "{\"budget\":\"Acme Corp\",\"seats\":\"Acme Corp\",\"company\":\"14000\"}" -> "6dd86207"
      [] s = "{\"budget\":\"Acme Corp\",\"seats\":\"Acme Corp\",\"company\":\"Acme Corp\"}" -> "4db6db5d"
      [] s = "{\"company\":14000,\"budget\":14000,\"seats\":14000}" -> "b53859b5"
      [] s = "{\"company\":14000,\"budget\":14000,\"seats\":\"14000\"}" -> "98c34a5e"
      [] s = "{\"company\":14000,\"budget\":14000,\"seats\":\"Acme Corp\"}" -> "349190cf"
      [] s = "{\"company\":14000,\"budget\":\"14000\",\"seats\":14000}" -> "3fcec812"
      [] s = "{\"company\":14000,\"budget\":\"14000\",\"seats\":\"14000\"}" -> "6aa1bdbe"
      [] s = "{\"company\":14000,\"budget\":\"14000\",\"seats\":\"Acme Corp\"}" -> "51c75bea"
      [] s = "{\"company\":14000,\"budget\":\"Acme Corp\",\"seats\":14000}" -> "cf8f3bca"
      [] s = "{\"company\":14000,\"budget\":\"Acme Corp\",\"seats\":\"14000\"}" -> "5e78b4f4"
      [] s = "{\"company\":14000,\"budget\":\"Acme Corp\",\"seats\":\"Acme Corp\"}" -> "b230e3b1"
      [] s = "{\"company\":\"14000\",\"budget\":14000,\"seats\":14000}" -> "a39be2c1"
      [] s = "{\"company\":\"14000\",\"budget\":14000,\"seats\":\"14000\"}" -> "f36f2f0e"
      [] s = "{\"company\":\"14000\",\"budget\":14000,\"seats\":\"Acme Corp\"}" -> "1cecee52"
      [] s = "{\"company\":\"14000\",\"budget\":\"14000\",\"seats\":14000}" -> "6ef3ba8f"
      [] s = "{\"company\":\"14000\",\"budget\":\"14000\",\"seats\":\"14000\"}" -> "3c20c563"
      [] s = "{\"company\":\"14000\",\"budget\":\"14000\",\"seats\":\"Acme Corp\"}" -> "52df1bc2"
      [] s = "{\"company\":\"14000\",\"budget\":\"Acme Corp\",\"seats\":14000}" -> "46b1544c"
      [] s = "{\"company\":\"14000\",\"budget\":\"Acme Corp\",\"seats\":\"14000\"}" -> "a5ea2cf9"
      [] s = "{\"company\":\"14000\",\"budget\":\"Acme Corp\",\"seats\":\"Acme Corp\"}" -> "15e3393e"
      [] s = "{\"company\":\"Acme Corp\",\"budget\":14000,\"seats\":14000}" -> "6b6d25c5"
      [] s = "{\"company\":\"Acme Corp\",\"budget\":14000,\"seats\":\"14000\"}" -> "a77b41a5"
      [] s = "{\"company\":\"Acme Corp\",\"budget\":14000,\"seats\":\"Acme Corp\"}" -> "6611ded9"
      [] s = "{\"company\":\"Acme Corp\",\"budget\":\"14000\",\"seats\":14000}" -> "949aa181"
      [] s = "{\"company\":\"Acme Corp\",\"budget\":\"14000\",\"seats\":\"14000\"}" -> "8b005f32"
      [] s = "{\"company\":\"Acme Corp\",\"budget\":\"14000\",\"seats\":\"Acme Corp\"}" -> "3d83f924"
      [] s = "{\"company\":\"Acme Corp\",\"budget\":\"Acme Corp\",\"seats\":14000}" -> "8cebd56e"
      [] s = "{\"company\":\"Acme Corp\",\"budget\":\"Acme Corp\",\"seats\":\"14000\"}" -> "bfb1e9a4"
      [] s = "{\"company\":\"Acme Corp\",\"budget\":\"Acme Corp\",\"seats\":\"Acme Corp\"}" -> "db2775ec"
      [] s = "{\"company\":14000,\"seats\":14000,\"budget\":14000}" -> "72a5ec10"
      [] s = "{\"company\":14000,\"seats\":14000,\"budget\":\"14000\"}" -> "c5867215"
      [] s = "{\"company\":14000,\"seats\":14000,\"budget\":\"Acme Corp\"}" -> "064c0f5b"
      [] s = "{\"company\":14000,\"seats\":\"14000\",\"budget\":14000}" -> "4354c1b9"
      [] s = "{\"company\":14000,\"seats\":\"14000\",\"budget\":\"14000\"}" -> "c19b79de"
      [] s = "{\"company\":14000,\"seats\":\"14000\",\"budget\":\"Acme Corp\"}" -> "6ae0d10a"
      [] s = "{\"company\":14000,\"seats\":\"Acme Corp\",\"budget\":14000}" -> "031414b3"
      [] s = "{\"company\":14000,\"seats\":\"Acme Corp\",\"budget\":\"14000\"}" -> "7cd15ce4"
      [] s = "{\"company\":14000,\"seats\":\"Acme Corp\",\"budget\":\"Acme Corp\"}" -> "b5302cfd"
      [] s = "{\"company\":\"14000\",\"seats\":14000,\"budget\":14000}" -> "060287d0"
      [] s = "{\"company\":\"14000\",\"seats\":14000,\"budget\":\"14000\"}" -> "f7726d30"
      [] s = "{\"company\":\"14000\",\"seats\":14000,\"budget\":\"Acme Corp\"}" -> "f45a98f0"
      [] s = "{\"company\":\"14000\",\"seats\":\"14000\",\"budget\":14000}" -> "f34375af"
      [] s = "{\"company\":\"14000\",\"seats\":\"14000\",\"budget\":\"14000\"}" -> "817bae74"
      [] s = "{\"company\":\"14000\",\"seats\":\"14000\",\"budget\":\"Acme Corp\"}" -> "d69cd141"
      [] s = "{\"company\":\"14000\",\"seats\":\"Acme Corp\",\"budget\":14000}" -> "fdcff107"
      [] s = "{\"company\":\"14000\",\"seats\":\"Acme Corp\",\"budget\":\"14000\"}" -> "1776dc09"
      [] s = "{\"company\":\"14000\",\"seats\":\"Acme Corp\",\"budget\":\"Acme Corp\"}" -> "c89d4706"
      [] s = "{\"company\":\"Acme Corp\",\"seats\":14000,\"budget\":14000}" -> "beeaf7ba"
      [] s = "{\"company\":\"Acme Corp\",\"seats\":14000,\"budget\":\"14000\"}" -> "2a9012aa"
      [] s = "{\"company\":\"Acme Corp\",\"seats\":14000,\"budget\":\"Acme Corp\"}" -> "694ce4f6"
      [] s = "{\"company\":\"Acme Corp\",\"seats\":\"14000\",\"budget\":14000}" -> "a0badcf1"
      [] s = "{\"company\":\"Acme Corp\",\"seats\":\"14000\",\"budget\":\"14000\"}" -> "33cf0759"
      [] s = "{\"company\":\"Acme Corp\",\"seats\":\"14000\",\"budget\":\"Acme Corp\"}" -> "d00292f8"
      [] s = "{\"company\":\"Acme Corp\",\"seats\":\"Acme Corp\",\"budget\":14000}" -> "a5b64ca4"
      [] s = "{\"company\":\"Acme Corp\",\"seats\":\"Acme Corp\",\"budget\":\"14000\"}" -> "144b9ed3"
      [] s = "{\"company\":\"Acme Corp\",\"seats\":\"Acme Corp\",\"budget\":\"Acme Corp\"}" -> "6e850d63"
      [] s = "{\"seats\":14000,\"budget\":14000,\"company\":14000}" -> "f9d0914b"
      [] s = "{\"seats\":14000,\"budget\":14000,\"company\":\"14000\"}" -> "bade97db"
      [] s = "{\"seats\":14000,\"budget\":14000,\"company\":\"Acme Corp\"}" -> "98a84322"
      [] s = "{\"seats\":14000,\"budget\":\"14000\",\"company\":14000}" -> "931c99f9"
      [] s = "{\"seats\":14000,\"budget\":\"14000\",\"company\":\"14000\"}" -> "fa7b56a5"
      [] s = "{\"seats\":14000,\"budget\":\"14000\",\"company\":\"Acme Corp\"}" -> "53dcf4b2"
      [] s = "{\"seats\":14000,\"budget\":\"Acme Corp\",\"company\":14000}" -> "e6efc7b7"
      [] s = "{\"seats\":14000,\"budget\":\"Acme Corp\",\"company\":\"14000\"}" -> "56a497f2"
      [] s = "{\"seats\":14000,\"budget\":\"Acme Corp\",\"company\":\"Acme Corp\"}" -> "abb8343a"
      [] s = "{\"seats\":\"14000\",\"budget\":14000,\"company\":14000}" -> "a1798337"
      [] s = "{\"seats\":\"14000\",\"budget\":14000,\"company\":\"14000\"}" -> "d8634ef3"
      [] s = "{\"seats\":\"14000\",\"budget\":14000,\"company\":\"Acme Corp\"}" -> "2b4497ed"
      [] s = "{\"seats\":\"14000\",\"budget\":\"14000\",\"company\":14000}" -> "273d9941"
      [] s = "{\"seats\":\"14000\",\"budget\":\"14000\",\"company\":\"14000\"}" -> "c03881bf"
      [] s = "{\"seats\":\"14000\",\"budget\":\"14000\",\"company\":\"Acme Corp\"}" -> "ed04b852"
      [] s = "{\"seats\":\"14000\",\"budget\":\"Acme Corp\",\"company\":14000}" -> "f90955a1"
      [] s = "{\"seats\":\"14000\",\"budget\":\"Acme Corp\",\"company\":\"14000\"}" -> "36c428bc"
      [] s = "{\"seats\":\"14000\",\"budget\":\"Acme Corp\",\"company\":\"Acme Corp\"}" -> "5aef239d"
      [] s = "{\"seats\":\"Acme Corp\",\"budget\":14000,\"company\":14000}" -> "ee530972"
      [] s = "{\"seats\":\"Acme Corp\",\"budget\":14000,\"company\":\"14000\"}" -> "f02c8762"
      [] s = "{\"seats\":\"Acme Corp\",\"budget\":14000,\"company\":\"Acme Corp\"}" -> "7ac60e62"
      [] s = "{\"seats\":\"Acme Corp\",\"budget\":\"14000\",\"company\":14000}" -> "66fc5a40"
      [] s = "{\"seats\":\"Acme Corp\",\"budget\":\"14000\",\"company\":\"14000\"}" -> "40252d02"
      [] s = "{\"seats\":\"Acme Corp\",\"budget\":\"14000\",\"company\":\"Acme Corp\"}" -> "5be95696"
      [] s = "{\"seats\":\"Acme Corp\",\"budget\":\"Acme Corp\",\"company\":14000}" -> "a647ab50"
      [] s = "{\"seats\":\"Acme Corp\",\"budget\":\"Acme Corp\",\"company\":\"14000\"}" -> "7bc041d0"
      [] s = "{\"seats\":\"Acme Corp\",\"budget\":\"Acme Corp\",\"company\":\"Acme Corp\"}" -> "a86a6752"
      [] s = "{\"seats\":14000,\"company\":14000,\"budget\":14000}" -> "598fa14f"
      [] s = "{\"seats\":14000,\"company\":14000,\"budget\":\"14000\"}" -> "cf8b2e08"
      [] s = "{\"seats\":14000,\"company\":14000,\"budget\":\"Acme Corp\"}" -> "612e3c03"
      [] s = "{\"seats\":14000,\"company\":\"14000\",\"budget\":14000}" -> "588a4457"
      [] s = "{\"seats\":14000,\"company\":\"14000\",\"budget\":\"14000\"}" -> "10e4211a"
      [] s = "{\"seats\":14000,\"company\":\"14000\",\"budget\":\"Acme Corp\"}" -> "2043dec6"
      [] s = "{\"seats\":14000,\"company\":\"Acme Corp\",\"budget\":14000}" -> "b7b5193e"
      [] s = "{\"seats\":14000,\"company\":\"Acme Corp\",\"budget\":\"14000\"}" -> "ef3ae911"
      [] s = "{\"seats\":14000,\"company\":\"Acme Corp\",\"budget\":\"Acme Corp\"}" -> "a46e2848"
      [] s = "{\"seats\":\"14000\",\"company\":14000,\"budget\":14000}" -> "7953e85d"
      [] s = "{\"seats\":\"14000\",\"company\":14000,\"budget\":\"14000\"}" -> "d320c02e"
      [] s = "{\"seats\":\"14000\",\"company\":14000,\"budget\":\"Acme Corp\"}" -> "0b11e0bd"
      [] s = "{\"seats\":\"14000\",\"company\":\"14000\",\"budget\":14000}" -> "91006463"
      [] s = "{\"seats\":\"14000\",\"company\":\"14000\",\"budget\":\"14000\"}" -> "33ee9659"
      [] s = "{\"seats\":\"14000\",\"company\":\"14000\",\"budget\":\"Acme Corp\"}" -> "00dc8b26"
      [] s = "{\"seats\":\"14000\",\"company\":\"Acme Corp\",\"budget\":14000}" -> "7c22fc29"
      [] s = "{\"seats\":\"14000\",\"company\":\"Acme Corp\",\"budget\":\"14000\"}" -> "31c258b7"
      [] s = "{\"seats\":\"14000\",\"company\":\"Acme Corp\",\"budget\":\"Acme Corp\"}" -> "ffec8624"
      [] s = "{\"seats\":\"Acme Corp\",\"company\":14000,\"budget\":14000}" -> "0725350c"
      [] s = "{\"seats\":\"Acme Corp\",\"company\":14000,\"budget\":\"14000\"}" -> "8a8caa74"
      [] s = "{\"seats\":\"Acme Corp\",\"company\":14000,\"budget\":\"Acme Corp\"}" -> "398323b4"
      [] s = "{\"seats\":\"Acme Corp\",\"company\":\"14000\",\"budget\":14000}" -> "19eefa8e"
      [] s = "{\"seats\":\"Acme Corp\",\"company\":\"14000\",\"budget\":\"14000\"}" -> "4b9a9f27"
      [] s = "{\"seats\":\"Acme Corp\",\"company\":\"14000\",\"budget\":\"Acme Corp\"}" -> "cb4bfa63"
      [] s = "{\"seats\":\"Acme Corp\",\"company\":\"Acme Corp\",\"budget\":14000}" -> "22207c61"
      [] s = "{\"seats\":\"Acme Corp\",\"company\":\"Acme Corp\",\"budget\":\"14000\"}" -> "1fd24bbd"
      [] s = "{\"seats\":\"Acme Corp\",\"company\":\"Acme Corp\",\"budget\":\"Acme Corp\"}" -> "27ea18dc"
      [] s = "{\"company\":\"Client\"}" -> "24b6c970"
      [] s = "{\"budget\":16000}" -> "c898833e"
      [] s = "{\"budget\":15000}" -> "00a05484"

\* _compute_bindings_hash
ComputeBindingsHash(bindings) == Sha256Hex8(JsonDumps(bindings))

\* the cache_key render_shot builds: shot id, seed, bindings hash, style
CacheKey(shot, style) ==
    shot.id \o "_" \o ToString(shot.seed) \o "_"
        \o ComputeBindingsHash(shot.bindings) \o "_" \o style

-----------------------------------------------------------------------------
(* The API handlers (app/api/videoquests.py) *)

\* quest ids are "q_" and eight hex digits of a uuid4; the model numbers them
QuestId(n) == "q_" \o ToString(n)

\* the quest ids requests name: the ids generate hands out and one it never does
RequestQuestIds == { QuestId(n) : n \in 0..MaxQuests }

StepIds == {"budget", "scope", "unknown"}

AnswerValues == { Num(14000), Num(16000) }

\* the value the quest's plan records for a checkpoint, None when it has none
RecordedValue(quest, step_id) ==
    LET hits == { i \in DOMAIN quest.plan.steps : quest.plan.steps[i].id = step_id }
    IN  IF hits = {} THEN None
        ELSE quest.plan.steps[CHOOSE i \in hits : TRUE].value

\* the checkpoints the generate response lists (a fixed list in the code)
ResponseCheckpoints ==
    << [id |-> "budget", label |-> "Budget", type |-> "currency"],
       [id |-> "scope", label |-> "Scope", type |-> "text"],
       [id |-> "timeline", label |-> "Timeline", type |-> "date"] >>

PreviewUrl(quest_id) ==
    "https://cdn.flowquest.dev/preview/" \o quest_id \o "/master.m3u8"

\* a delta list naming every shot of the quest's graph
DeltaShotsAllShots(request) ==
    LET shots == quest_storage[request.quest_id].plan.shot_graph.shots
    IN  [ i \in DOMAIN shots |->
            [ id |-> shots[i].id,
              url |-> "https://cdn.flowquest.dev/delta/" \o request.quest_id
                      \o "/" \o shots[i].id \o ".m3u8" ] ]

\* the delta_shots list answer_step builds
DeltaShots(request) ==
    << [ id |-> "s2",
         url |-> "https://cdn.flowquest.dev/delta/" \o request.quest_id \o "/s2.m3u8" ] >>

\* a handler that hands back the master manifest URL generate returned
NewPreviewUrlUnchanged(request) ==
    "https://cdn.flowquest.dev/preview/" \o request.quest_id \o "/master.m3u8"

\* the new_preview_url answer_step builds
NewPreviewUrl(request) ==
    "https://cdn.flowquest.dev/preview/" \o request.quest_id \o "/v2.m3u8"

\* a handler that marks the quest failed when it is answered
AnswerStepStoreFailed(storage, request) ==
    [ storage EXCEPT ![request.quest_id].status = "failed" ]

\* a handler that leaves the quest in status rendering when it returns
AnswerStepStoreRendering(storage, request) ==
    [ storage EXCEPT ![request.quest_id].status = "rendering" ]

\* what answer_step writes to the quest: nothing, the handler only reads
\* quest_storage
AnswerStepStore(storage, request) == storage

NoRequest ==
    [ op |-> "none", quest_id |-> "", step_id |-> "", value |-> None,
      before |-> None, preview_before |-> "", status_code |-> 0,
      delta_shots |-> <<>>, preview_url |-> "",
      status_before |-> "", exporter |-> "not called" ]

\* POST /generate: plan, store the quest, queue the preview task, respond.
\* Any exception of the planner becomes HTTP 500 and nothing is stored.
generate_videoquest(template_key, inputs, reply, order) ==
    LET quest_id == QuestId(Cardinality(DOMAIN quest_storage) + 1)
        plan     == GeneratePlan(safe_mode, template_key, inputs, reply, order)
    IN  /\ Cardinality(DOMAIN quest_storage) < MaxQuests
        /\ IF plan.ok
           THEN /\ quest_storage' =
                      [ q \in DOMAIN quest_storage \cup {quest_id} |->
                          IF q = quest_id
                          THEN [ template_key |-> template_key,
                                 inputs |-> inputs,
                                 plan |-> [ steps |-> plan.steps,
                                            shot_graph |-> plan.shot_graph ],
                                 status |-> "preview" ]
                          ELSE quest_storage[q] ]
                /\ preview_tasks' = preview_tasks \cup {quest_id}
                /\ preview_ref' =
                      [ q \in DOMAIN quest_storage \cup {quest_id} |->
                          IF q = quest_id THEN PreviewUrl(quest_id) ELSE preview_ref[q] ]
                /\ last' = [ NoRequest EXCEPT
                               !.op = "generate", !.quest_id = quest_id,
                               !.status_code = 200,
                               !.preview_url = PreviewUrl(quest_id) ]
           ELSE /\ last' = [ NoRequest EXCEPT !.op = "generate", !.status_code = 500 ]
                /\ UNCHANGED <<quest_storage, preview_tasks, preview_ref>>
        /\ UNCHANGED <<safe_mode, renderVars, keyVars, stitchVars, graphVars, rateVars>>

Generate ==
    \E template_key \in TemplateKeys, inputs \in InputChoices :
        \E reply \in LLMReplies(inputs) :
            \E order \in (IF reply.failed THEN { <<>> } ELSE Perms(BindingKeys(reply))) :
                generate_videoquest(template_key, inputs, reply, order)

\* POST /answer-step. The handler has no await between its first and last
\* line, so on the event loop it runs as one step. The HTTPException(404)
\* is raised inside the try block and caught by "except Exception", which
\* re-raises it as HTTP 500. render_time_ms, a wall-clock measurement, is
\* left out of the response.
answer_step(request) ==
    IF request.quest_id \notin DOMAIN quest_storage
    THEN /\ last' = [ NoRequest EXCEPT
                        !.op = "answer_step", !.quest_id = request.quest_id,
                        !.step_id = request.step_id, !.value = request.value,
                        !.status_code = 500 ]
         /\ UNCHANGED <<safe_mode, quest_storage, preview_tasks, preview_ref,
                        renderVars, keyVars, stitchVars, graphVars, rateVars>>
    ELSE /\ quest_storage' = AnswerStepStore(quest_storage, request)
         /\ preview_ref' = [ preview_ref EXCEPT ![request.quest_id] = NewPreviewUrl(request) ]
         /\ last' = [ op |-> "answer_step", quest_id |-> request.quest_id,
                      step_id |-> request.step_id, value |-> request.value,
                      before |-> RecordedValue(quest_storage[request.quest_id],
                                               request.step_id),
                      preview_before |-> preview_ref[request.quest_id],
                      status_code |-> 200,
                      delta_shots |-> DeltaShots(request),
                      preview_url |-> NewPreviewUrl(request),
                      status_before |-> quest_storage[request.quest_id].status,
                      exporter |-> "not called" ]
         /\ UNCHANGED <<safe_mode, preview_tasks, renderVars, keyVars, stitchVars, graphVars, rateVars>>

AnswerStep ==
    \E quest_id \in RequestQuestIds, step_id \in StepIds, value \in AnswerValues :
        answer_step([quest_id |-> quest_id, step_id |-> step_id, value |-> value])

\* the formats lists of the export requests of the model
ExportFormats == { <<"pdf">>, <<"pdf", "md">> }

\* ExporterEngine.export_quest(quest_id, formats, include_receipt): the
\* export-format renderer. It is handed the quest id, the formats and the
\* receipt flag and nothing of the quest; it hands back one artifact
\* reference per format (and the receipt when asked), or it raises
ExporterOutcomes(quest_id, formats, include_receipt) ==
    { [ raised |-> FALSE,
        artifacts |-> { formats[i] : i \in DOMAIN formats },
        receipt |-> include_receipt ],
      [ raised |-> TRUE, artifacts |-> {}, receipt |-> FALSE ] }

\* POST /export: look the quest up, call the exporter, return its result. The
\* HTTPException(404) and any exception of the exporter are caught by
\* "except Exception" and become HTTP 500. The handler reads no field of the
\* quest and writes none; after the await it only returns.
export_quest(request, result) ==
    /\ IF request.quest_id \notin DOMAIN quest_storage
       THEN last' = [ NoRequest EXCEPT
                        !.op = "export", !.quest_id = request.quest_id,
                        !.status_code = 500 ]
       ELSE last' = [ NoRequest EXCEPT
                        !.op = "export", !.quest_id = request.quest_id,
                        !.status_before = quest_storage[request.quest_id].status,
                        !.preview_before = preview_ref[request.quest_id],
                        !.preview_url = preview_ref[request.quest_id],
                        !.exporter = IF result.raised THEN "raised" ELSE "returned",
                        !.status_code = IF result.raised THEN 500 ELSE 200 ]
    /\ UNCHANGED <<safe_mode, quest_storage, preview_tasks, preview_ref,
                   renderVars, keyVars, stitchVars, graphVars, rateVars>>

Export ==
    \E quest_id \in RequestQuestIds, formats \in ExportFormats,
       include_receipt \in BOOLEAN :
        \E result \in ExporterOutcomes(quest_id, formats, include_receipt) :
            export_quest([ quest_id |-> quest_id, formats |-> formats,
                           include_receipt |-> include_receipt ], result)

\* POST /verify: look the quest up and return what the verifier reports. The
\* verifier checks a fixed record, not the quest, and raises nothing; the
\* HTTPException(404) is caught by "except Exception" and becomes HTTP 500.
verify_quest(request) ==
    /\ IF request.quest_id \notin DOMAIN quest_storage
       THEN last' = [ NoRequest EXCEPT
                        !.op = "verify", !.quest_id = request.quest_id,
                        !.status_code = 500 ]
       ELSE last' = [ NoRequest EXCEPT
                        !.op = "verify", !.quest_id = request.quest_id,
                        !.status_before = quest_storage[request.quest_id].status,
                        !.preview_before = preview_ref[request.quest_id],
                        !.preview_url = preview_ref[request.quest_id],
                        !.status_code = 200 ]
    /\ UNCHANGED <<safe_mode, quest_storage, preview_tasks, preview_ref,
                   renderVars, keyVars, stitchVars, graphVars, rateVars>>

Verify ==
    \E quest_id \in RequestQuestIds : verify_quest([quest_id |-> quest_id])

\* the background task _generate_preview: sleeps, logs, changes no quest
GeneratePreview ==
    \E quest_id \in preview_tasks :
        /\ preview_tasks' = preview_tasks \ {quest_id}
        /\ UNCHANGED <<safe_mode, quest_storage, preview_ref, last, renderVars, keyVars, stitchVars, graphVars, rateVars>>

ApiInit ==
    /\ safe_mode \in BOOLEAN
    /\ quest_storage = [q \in {} |-> None]
    /\ preview_tasks = {}
    /\ preview_ref = [q \in {} |-> ""]
    /\ last = NoRequest

RenderIdle ==
    /\ batches = <<>>
    /\ tasks = <<>>
    /\ cache = {}
    /\ backend_runs = [k \in {} |-> 0]

KeyIdle ==
    /\ k_shot = None
    /\ k_in = <<>>
    /\ k_out = <<>>

GraphIdle ==
    /\ g_in = <<>>
    /\ g_out = <<>>

RateIdle ==
    /\ rl_limit = 0
    /\ rl_bucket = None
    /\ rl_calls = <<>>

\* the variables of the other specifications at rest
OthersIdle == GraphIdle /\ RateIdle

StitchIdle ==
    /\ st_in = <<>>
    /\ st_out = <<>>

ApiIdle ==
    /\ safe_mode = FALSE
    /\ quest_storage = [q \in {} |-> None]
    /\ preview_tasks = {}
    /\ preview_ref = [q \in {} |-> ""]
    /\ last = NoRequest

Init == ApiInit /\ RenderIdle /\ KeyIdle /\ StitchIdle /\ OthersIdle

Next == Generate \/ AnswerStep \/ Verify \/ Export \/ GeneratePreview

Spec == Init /\ [][Next]_vars


-----------------------------------------------------------------------------
(* Claims about answer-step, checked under Spec *)

\* the last handled request was an answer-step that was served
Answered == last.op = "answer_step" /\ last.status_code = 200

AnsweredGraph == quest_storage[last.quest_id].plan.shot_graph

DeltaIds == { last.delta_shots[i].id : i \in DOMAIN last.delta_shots }

\* the shots that list the checkpoint among their step_ids
DirectDependents(shot_graph, step_id) ==
    { sh.id : sh \in { x \in Range(shot_graph.shots) : step_id \in Range(x.step_ids) } }

\* the graph of the acceptance scenario: s1 depending on no checkpoint, s2 on
\* budget, one edge s1 -> s2
IsBudgetScenarioGraph(shot_graph) ==
    /\ { sh.id : sh \in Range(shot_graph.shots) } = {"s1", "s2"}
    /\ DirectDependents(shot_graph, "budget") = {"s2"}
    /\ \A sh \in Range(shot_graph.shots) : sh.id = "s1" => sh.step_ids = <<>>
    /\ Range(shot_graph.edges) = { <<"s1", "s2">> }

\* C1: on the graph s1 (no checkpoint), s2 (budget), edge s1 -> s2, answering
\* budget with a value different from the recorded one returns the delta set
\* {s2}: s2 is in it and s1 is not
C1_BudgetDeltaIsS2 ==
    ( /\ Answered
      /\ last.step_id = "budget"
      /\ last.value # last.before
      /\ IsBudgetScenarioGraph(AnsweredGraph) )
    => DeltaIds = {"s2"}

\* C1 witness: the scenario graph, budget recorded as 16000, answered with
\* 14000 and served with a delta list
C1_Witness ==
    /\ Answered
    /\ last.step_id = "budget"
    /\ last.before = Num(16000)
    /\ last.value = Num(14000)
    /\ IsBudgetScenarioGraph(AnsweredGraph)
    /\ Len(last.delta_shots) = 1

\* C2: answer-step calls on one quest take effect one after another in
\* arrival order and none is lost. The handler runs as one event-loop step,
\* so the calls are handled in arrival order; what remains of the claim is
\* that the quest records the value of the latest served call for a
\* checkpoint of its plan
C2_LastAnswerRecorded ==
    (Answered /\ last.before # None)
    => RecordedValue(quest_storage[last.quest_id], last.step_id) = last.value

\* C7: answering a checkpoint that no shot depends on (also an id the graph
\* does not know) returns an empty delta set and leaves the preview as it was.
\* Staleness spreads along edges only from a shot that lists the checkpoint,
\* so no shot depends on it transitively exactly when none lists it
C7_UnreferencedCheckpointIsNoop ==
    (Answered /\ DirectDependents(AnsweredGraph, last.step_id) = {})
    => (last.delta_shots = <<>> /\ last.preview_url = last.preview_before)

\* C8: answering a checkpoint with the value it already records returns an
\* empty delta set
C8_SameValueGivesEmptyDelta ==
    (Answered /\ last.before # None /\ last.value = last.before)
    => last.delta_shots = <<>>

\* the statuses in which a quest is between two stable states
TransitionalStatuses == {"rendering", "exporting"}

\* the last handled request was an export of a stored quest
ExportAttempted == last.op = "export" /\ last.quest_id \in DOMAIN quest_storage

\* C11: answer-step is served only for a quest whose status is preview or
\* ready, and export only for a quest whose status is ready: an export of a
\* quest in another status is refused before the exporter is called
C11_OperationsGuardedByStatus ==
    /\ Answered => last.status_before \in {"preview", "ready"}
    /\ (ExportAttempted /\ last.status_before # "ready")
          => (last.exporter = "not called" /\ last.status_code # 200)


\* the status changes the lifecycle allows (QuestStatus values)
LegalTransitions ==
    { <<"preview", "rendering">>, <<"ready", "rendering">>,
      <<"rendering", "ready">>, <<"rendering", "failed">>,
      <<"ready", "exporting">>, <<"exporting", "completed">>,
      <<"exporting", "failed">> }

\* C12: over any sequence of generate, answer-step and export a quest starts
\* in status preview and its status changes only along the legal
\* transitions; so completed and failed are never left and failed is never
\* entered from preview or ready
C12_StatusTransitions ==
    [][ \A q \in DOMAIN quest_storage' :
          IF q \in DOMAIN quest_storage
          THEN \/ quest_storage'[q].status = quest_storage[q].status
               \/ <<quest_storage[q].status, quest_storage'[q].status>>
                     \in LegalTransitions
          ELSE quest_storage'[q].status = "preview" ]_vars

\* C12 witness: a quest that was generated, answered and then exported
C12_Witness ==
    /\ ExportAttempted
    /\ last.exporter = "returned"
    /\ preview_ref[last.quest_id] = NewPreviewUrl([quest_id |-> last.quest_id])
    /\ quest_storage[last.quest_id].status = "preview"

AnswerCommitted ==
    LET quest == quest_storage[last.quest_id]
    IN  /\ RecordedValue(quest, last.step_id) = last.value
        /\ \A sh \in Range(quest.plan.shot_graph.shots) :
              \A i \in DOMAIN sh.bindings :
                  sh.bindings[i][1] = last.step_id => sh.bindings[i][2] = last.value

\* the quest of the last served answer-step is as it was before the call: the
\* old value recorded, no shot re-rendered, the preview the one before
AnswerRetained ==
    /\ RecordedValue(quest_storage[last.quest_id], last.step_id) = last.before
    /\ last.delta_shots = <<>>
    /\ last.preview_url = last.preview_before

\* C14: after an answer-step returns the quest is not half updated: the
\* recorded answer, the shot bindings, the shot artifacts and the preview
\* either all reflect the answer or all are what they were before the call
C14_AnswerAllOrNothing ==
    (Answered /\ last.before # None) => (AnswerCommitted \/ AnswerRetained)

\* the last served answer-step changed the budget to a different value
BudgetChanged ==
    /\ Answered
    /\ last.step_id = "budget"
    /\ last.before # None
    /\ last.value # last.before

\* C18: after generate and an answer-step that changes budget to a different
\* value, the preview reference the answer-step returns differs from the one
\* generate returned for the quest
C18_NewPreviewDiffersFromInitial ==
    BudgetChanged => last.preview_url # PreviewUrl(last.quest_id)

\* C18 witness: the acceptance scenario: budget 16000 generated, answered with
\* 14000 right after generate, a preview reference returned
C18_Witness ==
    /\ BudgetChanged
    /\ last.before = Num(16000)
    /\ last.value = Num(14000)
    /\ last.preview_before = PreviewUrl(last.quest_id)
    /\ last.preview_url # ""

\* the shots reachable from the set S along the edges, S included
RECURSIVE ForwardClosure(_, _)
ForwardClosure(edges, S) ==
    LET T == S \cup { e[2] : e \in { x \in edges : x[1] \in S } }
    IN  IF T = S THEN S ELSE ForwardClosure(edges, T)

\* C20: for a checkpoint answered with a changed value the stale set that is
\* returned is exactly the shots that list the checkpoint together with every
\* shot reachable from one of them along outgoing edges
C20_StaleSetIsForwardClosure ==
    (Answered /\ last.before # None /\ last.value # last.before)
    => DeltaIds = ForwardClosure(Range(AnsweredGraph.edges),
                                 DirectDependents(AnsweredGraph, last.step_id))

\* C28: a quest is in status preview, and is answered, only when its initial
\* preview render is over: no quest whose _generate_preview task is pending
\* has status preview, and none is the quest of a served answer-step
C28_PreviewOnlyAfterInitialRender ==
    /\ \A q \in preview_tasks : quest_storage[q].status # "preview"
    /\ Answered => last.quest_id \notin preview_tasks

\* C29: answer-step, verify and export of a quest id that quest_storage does
\* not hold answer with HTTP status 404
C29_UnknownQuestIs404 ==
    ( /\ last.op \in {"answer_step", "verify", "export"}
      /\ last.quest_id \notin DOMAIN quest_storage )
    => last.status_code = 404

-----------------------------------------------------------------------------
(* RendererEngine.render_shot / render_delta_shots (app/engines/renderer.py) *)

\* settings.MAX_CONCURRENT_RENDERS
MAX_CONCURRENT_RENDERS == 4

NoUrl == ""

\* _check_cache: the lookup is not implemented and answers None for every key
CheckCache(store, cache_key) == NoUrl

\* _store_cache: the store is not implemented and keeps nothing
StoreCache(store, cache_key, url) == store

RenderedUrl(cache_key) == "https://cdn.flowquest.dev/shots/" \o cache_key \o ".m3u8"

\* the shot dicts handed to render_delta_shots: s1 and s2 of the
\* sales_quote_v1 graph and a third, independent shot
RenderShotIds == <<"s1", "s2", "s3">>

FullShot(id) ==
    CASE id = "s1" -> [ id |-> "s1", seed |-> 12345, duration |-> 8,
                        bindings |-> << <<"company", Str("Acme Corp")>> >> ]
      [] id = "s2" -> [ id |-> "s2", seed |-> 12346, duration |-> 12,
                        bindings |-> << <<"budget", Num(16000)>> >> ]
      [] id = "s3" -> [ id |-> "s3", seed |-> 12347, duration |-> 10,
                        bindings |-> <<>> ]

\* the same shot as a dict without its "seed" key, as a planner that was not
\* asked for seeds returns it
SeedlessShot(id) ==
    [ k \in {"id", "duration", "bindings"} |-> FullShot(id)[k] ]

\* the edges of the graph the shots belong to (render_delta_shots is not
\* given them)
RenderGraphEdges == { <<"s1", "s2">> }

\* the shot lists of the render_delta_shots calls of the model: the shots of
\* a set of ids in graph order, at most one of them without a seed
ShotLists ==
    { [ i \in DOMAIN ids |-> IF ids[i] = broken THEN SeedlessShot(ids[i])
                                                 ELSE FullShot(ids[i]) ] :
        ids \in { SelectSeq(RenderShotIds, LAMBDA x : x \in S) :
                    S \in SUBSET Range(RenderShotIds) \ {{}} },
        broken \in Range(RenderShotIds) \cup {"none"} }

BatchIds == DOMAIN batches

TaskIds(b) == DOMAIN tasks[b]

\* the tasks of all batches whose backend render is running (inside the
\* asyncio.sleep of render_shot)
Rendering == { <<b, i>> \in UNION { {b} \X TaskIds(b) : b \in BatchIds } :
                  tasks[b][i].pc = "rendering" }

\* render_delta_shots up to its await: one render_shot coroutine per shot is
\* handed to asyncio.gather, which schedules them all
render_delta_shots(shots, quest_id) ==
    /\ Len(batches) < MaxBatches
    /\ batches' = Append(batches, [ shots |-> shots, quest_id |-> quest_id,
                                   state |-> "gathering", results |-> <<>> ])
    /\ tasks' = Append(tasks, [ i \in DOMAIN shots |->
                                   [ pc |-> "created", cache_key |-> "",
                                     url |-> NoUrl, cache_hit |-> FALSE ] ])
    /\ UNCHANGED <<cache, backend_runs, apiVars, keyVars, stitchVars, graphVars, rateVars>>

RenderDeltaShots ==
    \E shots \in ShotLists : render_delta_shots(shots, QuestId(1))

\* render_shot from its first line to its first suspension: a KeyError for a
\* missing key ends the task; a cache hit returns at once; a miss enters the
\* backend render
StartedTask(shot) ==
    IF "seed" \notin DOMAIN shot
    THEN [ pc |-> "failed", cache_key |-> "", url |-> NoUrl, cache_hit |-> FALSE ]
    ELSE LET cache_key  == CacheKey(shot, "default")
             cached_url == CheckCache(cache, cache_key)
         IN  IF cached_url # NoUrl
             THEN [ pc |-> "done", cache_key |-> cache_key,
                    url |-> cached_url, cache_hit |-> TRUE ]
             ELSE [ pc |-> "rendering", cache_key |-> cache_key,
                    url |-> NoUrl, cache_hit |-> FALSE ]

\* the tasks gather scheduled sit next to each other in the loop's ready
\* queue, so they all run to their first suspension before anything else does
StartTasks(b) ==
    /\ \A i \in TaskIds(b) : tasks[b][i].pc = "created"
    /\ LET started == [ i \in TaskIds(b) |-> StartedTask(batches[b].shots[i]) ]
           keys    == { started[i].cache_key :
                          i \in { j \in TaskIds(b) : started[j].pc = "rendering" } }
           count(k) == Cardinality({ i \in TaskIds(b) :
                          started[i].pc = "rendering" /\ started[i].cache_key = k })
       IN  /\ tasks' = [ tasks EXCEPT ![b] = started ]
           /\ backend_runs' =
                 [ k \in DOMAIN backend_runs \cup keys |->
                     Get(backend_runs, k, 0) + count(k) ]
    /\ UNCHANGED <<batches, cache, apiVars, keyVars, stitchVars, graphVars, rateVars>>

\* the end of the asyncio.sleep of one render_shot, then its store and return.
\* The tasks of a batch start together, so the shorter render ends first.
RenderComplete(b, i) ==
    /\ tasks[b][i].pc = "rendering"
    /\ \A j \in TaskIds(b) :
          tasks[b][j].pc = "rendering"
              => batches[b].shots[j].duration >= batches[b].shots[i].duration
    /\ LET url == RenderedUrl(tasks[b][i].cache_key)
       IN  /\ cache' = StoreCache(cache, tasks[b][i].cache_key, url)
           /\ tasks' = [ tasks EXCEPT ![b][i].pc = "done", ![b][i].url = url ]
    /\ UNCHANGED <<batches, backend_runs, apiVars, keyVars, stitchVars, graphVars, rateVars>>

\* gather hands back every result: render_delta_shots builds its list
BatchReturn(b) ==
    /\ batches[b].state = "gathering"
    /\ \A i \in TaskIds(b) : tasks[b][i].pc = "done"
    /\ batches' = [ batches EXCEPT
                      ![b].state = "returned",
                      ![b].results = [ i \in TaskIds(b) |->
                                         [ id |-> batches[b].shots[i].id,
                                           url |-> tasks[b][i].url ] ] ]
    /\ UNCHANGED <<tasks, cache, backend_runs, apiVars, keyVars, stitchVars, graphVars, rateVars>>

\* gather (return_exceptions unset) raises the first exception of a task
\* into render_delta_shots, which does not catch it; the other tasks go on
BatchRaise(b) ==
    /\ batches[b].state = "gathering"
    /\ \E i \in TaskIds(b) : tasks[b][i].pc = "failed"
    /\ batches' = [ batches EXCEPT ![b].state = "raised" ]
    /\ UNCHANGED <<tasks, cache, backend_runs, apiVars, keyVars, stitchVars, graphVars, rateVars>>

InitRender == RenderIdle /\ ApiIdle /\ KeyIdle /\ StitchIdle /\ OthersIdle

NextRender ==
    \/ RenderDeltaShots
    \/ \E b \in BatchIds : StartTasks(b)
    \/ \E b \in BatchIds : \E i \in TaskIds(b) : RenderComplete(b, i)
    \/ \E b \in BatchIds : BatchReturn(b)
    \/ \E b \in BatchIds : BatchRaise(b)

SpecRender == InitRender /\ [][NextRender]_vars

-----------------------------------------------------------------------------
(* Claims about the render batches, checked under SpecRender *)

\* the backend render of a task has been started
BackendInvoked(b, i) == tasks[b][i].pc \in {"rendering", "done"}

\* tasks i and j of batch b render the two ends of a graph edge
InBatchEdge(b, i, j) ==
    <<batches[b].shots[i].id, batches[b].shots[j].id>> \in RenderGraphEdges

\* C3: singleflight: of the render requests that derive the same cache key
\* before a result is stored, only one runs the backend
C3_Singleflight ==
    \A t1 \in Rendering, t2 \in Rendering :
        t1 # t2 => tasks[t1[1]][t1[2]].cache_key # tasks[t2[1]][t2[2]].cache_key

\* C4: at most MAX_CONCURRENT_RENDERS shots are being rendered at any time
C4_ConcurrencyBound == Cardinality(Rendering) <= MAX_CONCURRENT_RENDERS

\* C5: within a batch the render of the target of an edge starts only after
\* the render of its source has completed successfully
C5_EdgeOrder ==
    \A b \in BatchIds : \A i \in TaskIds(b), j \in TaskIds(b) :
        (InBatchEdge(b, i, j) /\ BackendInvoked(b, j)) => tasks[b][i].pc = "done"

\* C6: the backend is never invoked for a shot whose in-batch upstream shot
\* failed, and the failure of one shot does not fail the batch: it still
\* returns, with the other shots rendered
C6_FailedUpstreamBlocks ==
    \A b \in BatchIds :
        /\ \A i \in TaskIds(b), j \in TaskIds(b) :
              (InBatchEdge(b, i, j) /\ tasks[b][i].pc = "failed")
                  => ~BackendInvoked(b, j)
        /\ batches[b].state # "raised"

\* the ids of the shots of batch b whose task ended in the given way
ShotsEnded(b, pc) == { batches[b].shots[i].id : i \in { j \in TaskIds(b) : tasks[b][j].pc = pc } }

\* C15: a batch that has ended with some shots failed and the others
\* completed is not a failure of the whole: it returns, its results naming
\* the completed shots (so that the failed ones can be listed as defects)
C15_PartialFailureReturns ==
    \A b \in BatchIds :
        ( /\ batches[b].state # "gathering"
          /\ ShotsEnded(b, "failed") # {}
          /\ ShotsEnded(b, "done") # {} )
        => /\ batches[b].state = "returned"
           /\ { batches[b].results[i].id : i \in DOMAIN batches[b].results }
                 = ShotsEnded(b, "done")


\* C21: a shot that has failed for good is reported as failed and does not
\* fail its batch: the batch does not raise, and when it has returned its
\* results name every completed shot that does not depend on the failed one
C21_ShotFailureSparesBatch ==
    \A b \in BatchIds : \A i \in TaskIds(b) :
        tasks[b][i].pc = "failed"
        => /\ batches[b].state # "raised"
           /\ batches[b].state = "returned"
                 => \A j \in TaskIds(b) :
                       (tasks[b][j].pc = "done" /\ ~InBatchEdge(b, i, j))
                       => \E r \in DOMAIN batches[b].results :
                             batches[b].results[r].id = batches[b].shots[j].id

\* C22: when a batch has ended, every shot of it has its outcome: none is
\* still being rendered or still waiting
C22_EndedBatchSettlesEveryShot ==
    \A b \in BatchIds :
        batches[b].state # "gathering"
        => \A i \in TaskIds(b) : tasks[b][i].pc \in {"done", "failed"}

\* C24: a render that missed the cache and completed has stored its result
\* under its key, so that a lookup of the same key now is a hit
C24_MissStoresResult ==
    \A b \in BatchIds : \A i \in TaskIds(b) :
        (tasks[b][i].pc = "done" /\ ~tasks[b][i].cache_hit)
        => CheckCache(cache, tasks[b][i].cache_key) = tasks[b][i].url

-----------------------------------------------------------------------------
(* SpecRerender: a shot made stale again while its render is in flight *)

\* shot s2 of the graph with its budget binding set to an answered value
ReboundShot(value) ==
    [ FullShot("s2") EXCEPT !.bindings = << <<"budget", value>> >> ]

\* the shot lists of the render_delta_shots calls that follow the answers to
\* the budget checkpoint: s2 under the answered value, alone or with a
\* neighbour
RerenderShotLists ==
    UNION { { << ReboundShot(v) >>,
              << FullShot("s1"), ReboundShot(v) >>,
              << ReboundShot(v), FullShot("s3") >> } : v \in AnswerValues }

RerenderShots ==
    \E shots \in RerenderShotLists : render_delta_shots(shots, QuestId(1))

InitRerender == RenderIdle /\ ApiIdle /\ KeyIdle /\ StitchIdle /\ OthersIdle

NextRerender ==
    \/ RerenderShots
    \/ \E b \in BatchIds : StartTasks(b)
    \/ \E b \in BatchIds : \E i \in TaskIds(b) : RenderComplete(b, i)
    \/ \E b \in BatchIds : BatchReturn(b)

SpecRerender == InitRerender /\ [][NextRerender]_vars

\* a later batch renders the shot of task i of batch b under other bindings
Superseded(b, i) ==
    \E b2 \in BatchIds : \E j \in TaskIds(b2) :
        /\ b2 > b
        /\ batches[b2].shots[j].id = batches[b].shots[i].id
        /\ batches[b2].shots[j].bindings # batches[b].shots[i].bindings

\* C23: a render that ends after its shot was made stale again under other
\* bindings is dropped: it hands back no artifact for the shot and writes
\* nothing to the cache
C23_ObsoleteRenderDropped ==
    [][ \A b \in BatchIds : \A i \in TaskIds(b) :
          ( /\ tasks[b][i].pc = "rendering"
            /\ tasks'[b][i].pc = "done"
            /\ Superseded(b, i) )
          => (tasks'[b][i].url = NoUrl /\ cache' = cache) ]_vars

-----------------------------------------------------------------------------
(* SpecKey: the cache key of one shot under two binding mappings *)

KeyNames == {"budget", "company", "seats"}

KeyValues == { Num(14000), Str("14000"), Str("Acme Corp") }

\* every dict of at most MaxBindings pairs over KeyNames and KeyValues, in
\* every insertion order
RECURSIVE MappingsOfLen(_)
MappingsOfLen(n) ==
    IF n = 0 THEN { <<>> }
    ELSE { Append(m, <<k, v>>) :
             m \in MappingsOfLen(n - 1), k \in KeyNames, v \in KeyValues }

BindingMappings ==
    { m \in UNION { MappingsOfLen(n) : n \in 0..MaxBindings } :
        Cardinality(KeysOf(m)) = Len(m) }

KeyShots ==
    { [id |-> "s1", seed |-> 12345, style |-> "default"],
      [id |-> "s2", seed |-> 12346, style |-> "hq"] }

KeyInit ==
    /\ k_shot \in KeyShots
    /\ k_in \in BindingMappings \X BindingMappings
    /\ k_out = <<>>

\* lines 33-35 of render_shot, run once for each of the two mappings
DeriveKeys ==
    /\ k_out = <<>>
    /\ k_out' = [ i \in {1, 2} |->
                    CacheKey([id |-> k_shot.id, seed |-> k_shot.seed,
                              bindings |-> k_in[i]], k_shot.style) ]
    /\ UNCHANGED <<k_shot, k_in, apiVars, renderVars, stitchVars, graphVars, rateVars>>

InitKey == KeyInit /\ ApiIdle /\ RenderIdle /\ StitchIdle /\ OthersIdle

NextKey == DeriveKeys

SpecKey == InitKey /\ [][NextKey]_vars

\* the two mappings hold the same key/value pairs
SamePairs(a, b) == Range(a) = Range(b)

\* C9: two binding mappings that hold the same key/value pairs in a different
\* insertion order give the same cache key (shot id, seed and style equal)
C9_KeyIgnoresInsertionOrder ==
    (k_out # <<>> /\ SamePairs(k_in[1], k_in[2])) => k_out[1] = k_out[2]

\* C9 witness: two different insertion orders of the same two pairs, keys
\* derived for both
C9_Witness ==
    /\ k_out # <<>>
    /\ SamePairs(k_in[1], k_in[2])
    /\ k_in[1] # k_in[2]
    /\ Len(k_in[1]) = 2

\* the canonical text of a value: the number 14000 and the string "14000"
\* denote the same canonical value
SameCanonical(a, b) ==
    /\ KeysOf(a) = KeysOf(b)
    /\ \A k \in KeysOf(a) : Format(Lookup(a, k)) = Format(Lookup(b, k))

\* C10: two binding mappings that differ only in writing the same canonical
\* value as a number or as text give the same cache key
C10_KeyIgnoresRepresentation ==
    (k_out # <<>> /\ SameCanonical(k_in[1], k_in[2])) => k_out[1] = k_out[2]

-----------------------------------------------------------------------------
(* SpecStitch: RendererEngine.stitch_preview called for two shot lists *)

\* the artifacts a shot of the graph s1 -> s2, s3 can have: the URL
\* render_shot returns for it in one of two styles, or none
ArtifactUrls(id) ==
    { RenderedUrl(CacheKey(FullShot(id), style)) : style \in {"default", "hq"} }
        \cup {NoUrl}

\* the maps from the shots of the graph to an artifact (or none)
ArtifactMaps ==
    { m \in [ Range(RenderShotIds) -> UNION { ArtifactUrls(id) : id \in Range(RenderShotIds) } ] :
        \A id \in Range(RenderShotIds) : m[id] \in ArtifactUrls(id) }

\* the shots lists handed to stitch_preview: the rendered shots of the graph
\* with their artifacts, in the order in which their renders completed
StitchShotLists ==
    { [ i \in DOMAIN order |-> [ id |-> order[i], url |-> m[order[i]] ] ] :
        order \in Perms(Range(RenderShotIds)), m \in ArtifactMaps }

\* stitch_preview(shots, quest_id): sleeps, then returns the master manifest
\* URL of the quest; it reads nothing of shots and raises nothing
stitch_preview(shots, quest_id) ==
    [ raised |-> FALSE,
      url |-> "https://cdn.flowquest.dev/preview/" \o quest_id \o "/master.m3u8" ]

StitchInit ==
    /\ st_in \in StitchShotLists \X StitchShotLists
    /\ st_out = <<>>

\* stitch_preview run for each of the two lists, for the same quest
StitchPreviews ==
    /\ st_out = <<>>
    /\ st_out' = [ i \in {1, 2} |-> stitch_preview(st_in[i], QuestId(1)) ]
    /\ UNCHANGED <<st_in, apiVars, renderVars, keyVars, graphVars, rateVars>>

InitStitch == StitchInit /\ ApiIdle /\ RenderIdle /\ KeyIdle /\ OthersIdle

NextStitch == StitchPreviews

SpecStitch == InitStitch /\ [][NextStitch]_vars

\* the shot-to-artifact map of a shots list
ArtifactMapOf(shots) == { <<shots[i].id, shots[i].url>> : i \in DOMAIN shots }

\* the artifacts of a shots list in the topological order s1, s2, s3 of the
\* graph
ArtifactsInTopologicalOrder(shots) ==
    [ k \in DOMAIN RenderShotIds |->
        (CHOOSE sh \in Range(shots) : sh.id = RenderShotIds[k]).url ]

\* every shot of the list has an artifact
AllArtifactsPresent(shots) == \A i \in DOMAIN shots : shots[i].url # NoUrl

\* C16: stitch returns the same manifest for the same shot-to-artifact map
\* whatever the completion order, and the manifest lists the artifacts in
\* topological order: two equal manifests list the same artifacts
C16_StitchDeterminedByArtifacts ==
    st_out # <<>> =>
        /\ ArtifactMapOf(st_in[1]) = ArtifactMapOf(st_in[2]) => st_out[1] = st_out[2]
        /\ ( /\ AllArtifactsPresent(st_in[1])
             /\ AllArtifactsPresent(st_in[2])
             /\ ~st_out[1].raised
             /\ st_out[1] = st_out[2] )
           => ArtifactsInTopologicalOrder(st_in[1]) = ArtifactsInTopologicalOrder(st_in[2])

\* C17: stitch fails (IncompleteGraphError) whenever some shot of the graph
\* has no artifact
C17_StitchFailsOnMissingArtifact ==
    st_out # <<>> =>
        \A i \in {1, 2} : ~AllArtifactsPresent(st_in[i]) => st_out[i].raised

-----------------------------------------------------------------------------
(* SpecGraph: constructing a ShotGraph (common-schemas/python/shot_graph.py) *)

\* the checkpoint ids of the quest the graph is built for
QuestCheckpointIds == {"budget", "scope"}

\* the shots lists of the model: some of s1, s2, s3 in any order, the first
\* of them depending on no checkpoint, on budget, or on a checkpoint the
\* quest does not have
GraphShotLists ==
    { [ i \in DOMAIN order |->
          [ id |-> order[i],
            step_ids |-> IF i = 1 THEN deps ELSE <<>> ] ] :
        order \in UNION { Perms(S) : S \in SUBSET Range(RenderShotIds) \ {{}} },
        deps \in { <<>>, <<"budget">>, <<"ghost">> } }

\* the edges the lists are drawn from: among them a pair closing a cycle and
\* one naming a shot no list holds
CandidateEdges ==
    << <<"s1", "s2">>, <<"s2", "s1">>, <<"s2", "s3">>, <<"s1", "s9">> >>

\* the edges lists of the model, and one whose entry is not a pair
GraphEdgeLists ==
    { SelectSeq(CandidateEdges, LAMBDA e : e \in S) : S \in SUBSET Range(CandidateEdges) }
        \cup { << <<"s1", "s2", "s3">> >> }

\* ShotGraph(version=..., shots=..., edges=...): pydantic checks the field
\* types (every edge a pair of strings) and nothing else
ShotGraph(version, shots, edges) ==
    IF \A i \in DOMAIN edges : Len(edges[i]) = 2
    THEN [ ok |-> TRUE, error |-> "",
           graph |-> [ version |-> version, shots |-> shots, edges |-> edges ] ]
    ELSE [ ok |-> FALSE, error |-> "ValidationError",
           graph |-> [ version |-> version, shots |-> <<>>, edges |-> <<>> ] ]

\* the order over its shots a ShotGraph has: that of its shots list
ShotOrder(graph) == [ i \in DOMAIN graph.shots |-> graph.shots[i].id ]

GraphInit ==
    /\ g_in \in [ shots : GraphShotLists, edges : GraphEdgeLists ]
    /\ g_out = <<>>

ConstructGraph ==
    /\ g_out = <<>>
    /\ g_out' = << ShotGraph("1.0", g_in.shots, g_in.edges) >>
    /\ UNCHANGED <<g_in, apiVars, renderVars, keyVars, stitchVars, rateVars>>

InitGraph == GraphInit /\ ApiIdle /\ RenderIdle /\ KeyIdle /\ StitchIdle /\ RateIdle

NextGraph == ConstructGraph

SpecGraph == InitGraph /\ [][NextGraph]_vars

\* the shot ids of a graph
ShotIdsOf(graph) == { graph.shots[i].id : i \in DOMAIN graph.shots }

\* every edge joins two shots of the graph, every shot depends on checkpoints
\* of the quest only, and no shot is reachable from itself
WellFormedGraph(graph) ==
    LET E == Range(graph.edges)
    IN  /\ \A e \in E : e[1] \in ShotIdsOf(graph) /\ e[2] \in ShotIdsOf(graph)
        /\ \A sh \in Range(graph.shots) : Range(sh.step_ids) \subseteq QuestCheckpointIds
        /\ \A n \in ShotIdsOf(graph) :
              n \notin ForwardClosure(E, { e[2] : e \in { x \in E : x[1] = n } })

\* C26: a ShotGraph is constructed only from shots and edges without a
\* dangling edge endpoint, an unknown checkpoint or a cycle (anything else is
\* rejected), so every constructed graph is a DAG without dangling reference
C26_ConstructedGraphIsWellFormed ==
    (g_out # <<>> /\ g_out[1].ok) => WellFormedGraph(g_out[1].graph)

\* the place of a shot id in an order, and its place in the lexical order
PosIn(order, id) == CHOOSE k \in DOMAIN order : order[k] = id

LexRank(id) == PosIn(RenderShotIds, id)

\* C27: the order of the shots of a well-formed graph holds every shot once,
\* has the source of every edge before its target, and of two shots that no
\* path of edges joins has the one with the lexically smaller id first
C27_ShotOrderIsTopological ==
    (g_out # <<>> /\ g_out[1].ok /\ WellFormedGraph(g_out[1].graph))
    => LET graph == g_out[1].graph
           order == ShotOrder(graph)
           E     == Range(graph.edges)
       IN  /\ Len(order) = Cardinality(ShotIdsOf(graph))
           /\ Range(order) = ShotIdsOf(graph)
           /\ \A e \in E : PosIn(order, e[1]) < PosIn(order, e[2])
           /\ \A a \in ShotIdsOf(graph), b \in ShotIdsOf(graph) :
                 ( /\ LexRank(a) < LexRank(b)
                   /\ b \notin ForwardClosure(E, {a})
                   /\ a \notin ForwardClosure(E, {b}) )
                 => PosIn(order, a) < PosIn(order, b)

-----------------------------------------------------------------------------
(* SpecRate: RateLimiter.is_allowed for one client key (middleware/rate_limiter.py) *)

Min(a, b) == IF a <= b THEN a ELSE b

\* the tokens a call works with after its read: the stored count (the limit
\* when the key is absent) plus the refill for the time elapsed, which is
\* none here, capped at the limit
TokensAfterRefill(bucket, limit, time_elapsed) ==
    LET tokens == IF bucket = None THEN limit ELSE bucket.tokens
    IN  Min(limit, tokens + time_elapsed * limit)

RateInit ==
    /\ rl_limit \in 1..MaxLimit
    /\ rl_bucket = None
    /\ rl_calls = <<>>

\* is_allowed up to and including self.redis.get(bucket_key), for a request
\* the middleware does not skip
IsAllowedRead ==
    /\ Len(rl_calls) < MaxCallers
    /\ rl_calls' = Append(rl_calls,
                          [ pc |-> "read",
                            tokens |-> TokensAfterRefill(rl_bucket, rl_limit, 0),
                            allowed |-> FALSE ])
    /\ UNCHANGED <<rl_limit, rl_bucket, apiVars, renderVars, keyVars, stitchVars, graphVars>>

\* the rest of is_allowed: take a token if there is one, write the bucket
\* back with self.redis.setex, return the verdict (the middleware answers
\* 429 when it is False)
IsAllowedWrite(c) ==
    /\ rl_calls[c].pc = "read"
    /\ LET allowed == rl_calls[c].tokens >= 1
           tokens  == IF allowed THEN rl_calls[c].tokens - 1 ELSE rl_calls[c].tokens
       IN  /\ rl_bucket' = [ tokens |-> tokens, last_refill |-> 0 ]
           /\ rl_calls' = [ rl_calls EXCEPT ![c] =
                              [ pc |-> "returned", tokens |-> tokens,
                                allowed |-> allowed ] ]
    /\ UNCHANGED <<rl_limit, apiVars, renderVars, keyVars, stitchVars, graphVars>>

InitRate == RateInit /\ ApiIdle /\ RenderIdle /\ KeyIdle /\ StitchIdle /\ GraphIdle

NextRate ==
    \/ IsAllowedRead
    \/ \E c \in DOMAIN rl_calls : IsAllowedWrite(c)

SpecRate == InitRate /\ [][NextRate]_vars

\* the calls that were admitted
Admitted == { c \in DOMAIN rl_calls : rl_calls[c].pc = "returned" /\ rl_calls[c].allowed }

\* C30: with no time elapsing, at most limit requests of one client are
\* admitted, and the stored token count stays between 0 and limit
C30_AtMostLimitAdmitted ==
    /\ Cardinality(Admitted) <= rl_limit
    /\ rl_bucket # None => (rl_bucket.tokens >= 0 /\ rl_bucket.tokens <= rl_limit)

=============================================================================
